---- MODULE Spec2Model ----
(***************************************************************************)
(* A model of the freegeoip database handle (db.go): the DB struct, its    *)
(* lock, its three notification channels, the watcher goroutine            *)
(* (watchEvents -> openFile -> setReader), the update goroutine            *)
(* (autoUpdate -> runUpdate -> needUpdate / download / renameFile), and    *)
(* the callers of OpenURL, Lookup and Close.  Every step that takes or     *)
(* releases db.mu, touches a channel or the file system is one action.     *)
(***************************************************************************)
EXTENDS Integers, Sequences, FiniteSets, TLC

\* ------------------------------------------------------------------ bounds
MaxInst == 3      \* decoder instances newReader may build in one run
MaxQueue == 1     \* events pending on watcher.Event
MaxMtime == 2     \* modification times a file may carry (1..MaxMtime)
MaxSize == 1      \* byte sizes a file may have (0..MaxSize)
MaxBursts == 2    \* event bursts whose reloads are counted
MaxFails == 3     \* consecutive failed cycles that are counted exactly
MaxRetry == 12    \* largest configured maxRetryInterval, in seconds
MaxUpdate == 2    \* largest configured updateInterval, in seconds
MaxHdrLen == 2    \* longest Content-Length header value, in characters

\* ------------------------------------------------------- program constants
FirstRetry == 5   \* sleep = 5 * time.Second
Second == 1       \* time.Sleep(time.Second), in clock ticks

\* ------------------------------------------------------------------- state
VARIABLES
    closed,       \* db.closed
    reader,       \* db.reader: 0 is nil, otherwise a decoder instance
    lastUpdated,  \* db.lastUpdated (0 is the zero time)
    notifyOpen,   \* buffer of db.notifyOpen (capacity 1)
    notifyError,  \* buffer of db.notifyError (capacity 1)
    chClosed,     \* how many times each channel has been closed
    panicked,     \* a close of a closed channel or a send on one happened
    mu,           \* db.mu: [w |-> writer or "", r |-> set of readers]
    instState,    \* each decoder instance: "none", "open" or "closed"
    instMtime,    \* modification time of the file whose bytes built it (open ones)
    installs,     \* instances installed by setReader, in order
    file,         \* the canonical file db.file
    bak,          \* db.file + ".bak"
    tmp,          \* the temporary file of the latest download
    dir,          \* the directory of db.file exists
    queue,        \* events pending on watcher.Event
    burst,        \* number of the current event burst
    fresh,        \* a clock tick has passed since the last event
    reloads,      \* openFile calls made for the events of each burst
    track,        \* what is recorded: "time" (sleeps take ticks, bursts are
                  \* numbered, emissions logged), "cycle" (cycle, fails),
                  \* "errs" (errors on notifyError are told apart)
    cpc,          \* position of each caller of Close and of OpenURL
    lpc,          \* position of each Lookup caller
    lres,         \* what each Lookup returned last
    lUsed,        \* the instance each Lookup queried last
    lAfter,       \* the Lookup took its read lock after a Close returned
    closeDone,    \* some Close call has returned
    wpc,          \* position of the watcher goroutine
    wReader,      \* openFile's local: the instance newReader built
    wMod,         \* openFile's local: stat.ModTime()
    wTimer,       \* ticks left of the watcher's time.Sleep
    wErr,         \* the last openFile of the watcher returned an error
    wEv,          \* burst of the event the watcher is handling
    dateBefore,   \* what Date returned when the current setReader began
    spc,          \* position of the update goroutine
    sleep,        \* autoUpdate's local: sleep, in seconds
    retrying,     \* autoUpdate's local: retrying
    sErr,         \* err of the current runUpdate ("" is nil)
    fails,        \* consecutive failed cycles so far
    cycle,        \* what runUpdate saw at its start and where it went
    updateInterval,
    maxRetryInterval,
    emitted,      \* kinds of error ever buffered on notifyError (if track)
    nuIn,         \* needUpdate's inputs in the pure-function specification
    nuOut         \* needUpdate's result there

handleVars == <<closed, reader, lastUpdated, notifyOpen, notifyError, chClosed,
                panicked, mu, instState, instMtime, installs, emitted>>
fsVars == <<file, bak, tmp, dir>>
evVars == <<queue, burst, fresh, reloads, track>>
callVars == <<cpc, lpc, lres, lUsed, lAfter, closeDone>>
watchVars == <<wpc, wReader, wMod, wTimer, wErr, wEv, dateBefore>>
schedVars == <<spc, sleep, retrying, sErr, fails, cycle>>
cfgVars == <<updateInterval, maxRetryInterval>>
nuVars == <<nuIn, nuOut>>
vars == <<handleVars, fsVars, evVars, callVars, watchVars, schedVars, cfgVars,
          nuVars>>

\* ----------------------------------------------------------------- helpers
Closers == {"c1", "c2"}
\* The caller of OpenURL, who runs watchFile and, if it fails, Close.
Openers == {"o"}
Callers == Closers \cup Openers
Lookups == {"l1", "l2"}
Insts == 1..MaxInst
Mtimes == 1..MaxMtime
Sizes == 0..MaxSize

NoFile == [exists |-> FALSE, mtime |-> 0, size |-> 0, valid |-> FALSE]
Files == [exists : {TRUE}, mtime : Mtimes, size : Sizes, valid : BOOLEAN]

\* Files whose size plays no part (nothing compares sizes but needUpdate),
\* and among them those of one modification time.
Files0 == {f \in Files : f.size = 0}
Files1 == {f \in Files0 : f.mtime = 1}
\* One valid snapshot, and the valid snapshots of every size.
FileA == {f \in Files1 : f.valid}
FilesS == {f \in Files : f.mtime = 1 /\ f.valid}
\* The valid snapshots of every modification time.
FilesM == {f \in Files0 : f.valid}

Min(a, b) == IF a < b THEN a ELSE b

\* a write lock that does not wait for the readers
UnlockedForWriters == mu.w = ""

\* sync.RWMutex
Unlocked == mu.w = "" /\ mu.r = {}
CanRLock == mu.w = ""
Lock(p) == [mu EXCEPT !.w = p]
Unlock == [mu EXCEPT !.w = ""]
RLock(p) == [mu EXCEPT !.r = @ \cup {p}]
RUnlock(p) == [mu EXCEPT !.r = @ \ {p}]

\* close(ch): closing a closed channel panics
CloseChan(ch) ==
    /\ chClosed' = [chClosed EXCEPT ![ch] = @ + 1]
    /\ panicked' = (panicked \/ chClosed[ch] > 0)

\* a send that replaces the value waiting in the slot
TrySendReplace(buf, v) == <<v>>

\* select { case ch <- v: default: } on a channel of capacity 1: the value is
\* buffered when the slot is free and dropped otherwise; on a closed channel
\* the send case is chosen and panics.
TrySend(buf, v) == IF Len(buf) < 1 THEN Append(buf, v) ELSE buf

\* The event a change of the canonical file puts on watcher.Event; bursts
\* after MaxBursts share the number MaxBursts + 1 and are not counted.
\* Nothing is delivered before watcher.Watch(dbdir) has armed the watch, nor
\* while no watcher goroutine is receiving.
Timed == "time" \in track
Armed == \A o \in Openers : cpc[o] = "o_done"
CurBurst ==
    IF ~Timed THEN 0
    ELSE IF fresh THEN Min(burst + 1, MaxBursts + 1) ELSE burst
Watching == Armed /\ wpc \notin {"off", "nogo", "done"}
Emit(name, op) ==
    /\ queue' = IF Watching
                THEN Append(queue, [name |-> name, op |-> op, b |-> CurBurst])
                ELSE queue
    /\ burst' = CurBurst
    /\ fresh' = FALSE
    /\ UNCHANGED <<reloads, track>>
CanEmit == Len(queue) < MaxQueue \/ ~Watching

\* ------------------------------------------------------------------- Close
\* Close signalling on every call
CloseSignalsAlways(cl) == TRUE

\* if !db.closed
CloseSignals(cl) == ~cl

Close_Lock(c) ==
    /\ cpc[c] = "idle"
    /\ Unlocked
    /\ mu' = Lock(c)
    /\ cpc' = [cpc EXCEPT ![c] = "c_check"]
    /\ UNCHANGED <<closed, reader, lastUpdated, notifyOpen, notifyError,
                   chClosed, panicked, instState, instMtime, installs, emitted,
                   fsVars, evVars, lpc, lres, lUsed, lAfter, closeDone,
                   watchVars, schedVars, cfgVars, nuVars>>

Close_Check(c) ==
    /\ cpc[c] = "c_check"
    /\ IF CloseSignals(closed)
       THEN closed' = TRUE /\ cpc' = [cpc EXCEPT ![c] = "c_quit"]
       ELSE closed' = closed /\ cpc' = [cpc EXCEPT ![c] = "c_reader"]
    /\ UNCHANGED <<reader, lastUpdated, notifyOpen, notifyError, chClosed,
                   panicked, mu, instState, instMtime, installs, emitted,
                   fsVars, evVars, lpc, lres, lUsed, lAfter, closeDone,
                   watchVars, schedVars, cfgVars, nuVars>>

Close_Chan(c) ==
    /\ cpc[c] \in {"c_quit", "c_open", "c_err"}
    /\ \/ cpc[c] = "c_quit" /\ CloseChan("quit")
          /\ cpc' = [cpc EXCEPT ![c] = "c_open"]
       \/ cpc[c] = "c_open" /\ CloseChan("open")
          /\ cpc' = [cpc EXCEPT ![c] = "c_err"]
       \/ cpc[c] = "c_err" /\ CloseChan("error")
          /\ cpc' = [cpc EXCEPT ![c] = "c_reader"]
    /\ UNCHANGED <<closed, reader, lastUpdated, notifyOpen, notifyError, mu,
                   instState, instMtime, installs, emitted, fsVars, evVars,
                   lpc, lres, lUsed, lAfter, closeDone, watchVars, schedVars,
                   cfgVars, nuVars>>

Close_Reader(c) ==
    /\ cpc[c] = "c_reader"
    /\ IF reader # 0
       THEN /\ instState' = [instState EXCEPT ![reader] = "closed"]
            /\ instMtime' = [instMtime EXCEPT ![reader] = 0]
            /\ reader' = 0
       ELSE UNCHANGED <<instState, instMtime, reader>>
    /\ cpc' = [cpc EXCEPT ![c] = "c_unlock"]
    /\ UNCHANGED <<closed, lastUpdated, notifyOpen, notifyError, chClosed,
                   panicked, mu, installs, emitted, fsVars, evVars,
                   lpc, lres, lUsed, lAfter, closeDone, watchVars, schedVars,
                   cfgVars, nuVars>>

Close_Unlock(c) ==
    /\ cpc[c] = "c_unlock"
    /\ mu' = Unlock
    /\ closeDone' = TRUE
    /\ cpc' = [cpc EXCEPT ![c] = IF c \in Openers THEN "o_failed" ELSE "idle"]
    /\ UNCHANGED <<closed, reader, lastUpdated, notifyOpen, notifyError,
                   chClosed, panicked, instState, instMtime, installs, emitted,
                   fsVars, evVars, lpc, lres, lUsed, lAfter, watchVars,
                   schedVars, cfgVars, nuVars>>

Close(c) ==
    \/ Close_Lock(c)
    \/ Close_Check(c)
    \/ Close_Chan(c)
    \/ Close_Reader(c)
    \/ Close_Unlock(c)

\* ------------------------------------------------------------------ Lookup
\* if db.reader != nil { return db.reader.Lookup(addr, result) }
\* return ErrUnavailable
LookupResult(r, st) ==
    IF r # 0
    THEN [res |-> IF st[r] = "open" THEN "ok" ELSE "closedquery", used |-> r]
    ELSE [res |-> "unavailable", used |-> 0]

Lookup_RLock(l) ==
    /\ lpc[l] = "idle"
    /\ CanRLock
    /\ mu' = RLock(l)
    /\ lAfter' = [lAfter EXCEPT ![l] = closeDone]
    /\ lpc' = [lpc EXCEPT ![l] = "l_query"]
    /\ UNCHANGED <<closed, reader, lastUpdated, notifyOpen, notifyError,
                   chClosed, panicked, instState, instMtime, installs, emitted,
                   fsVars, evVars, cpc, lres, lUsed, closeDone, watchVars,
                   schedVars, cfgVars, nuVars>>

Lookup_Query(l) ==
    /\ lpc[l] = "l_query"
    /\ lres' = [lres EXCEPT ![l] = LookupResult(reader, instState).res]
    /\ lUsed' = [lUsed EXCEPT ![l] = LookupResult(reader, instState).used]
    /\ lpc' = [lpc EXCEPT ![l] = "l_unlock"]
    /\ UNCHANGED <<handleVars, fsVars, evVars, cpc, lAfter, closeDone,
                   watchVars, schedVars, cfgVars, nuVars>>

Lookup_RUnlock(l) ==
    /\ lpc[l] = "l_unlock"
    /\ mu' = RUnlock(l)
    /\ lres' = [lres EXCEPT ![l] = "none"]
    /\ lUsed' = [lUsed EXCEPT ![l] = 0]
    /\ lAfter' = [lAfter EXCEPT ![l] = FALSE]
    /\ lpc' = [lpc EXCEPT ![l] = "idle"]
    /\ UNCHANGED <<closed, reader, lastUpdated, notifyOpen, notifyError,
                   chClosed, panicked, instState, instMtime, installs, emitted,
                   fsVars, evVars, cpc, closeDone, watchVars, schedVars,
                   cfgVars, nuVars>>

Lookup(l) ==
    \/ Lookup_RLock(l)
    \/ Lookup_Query(l)
    \/ Lookup_RUnlock(l)

\* Date: return db.lastUpdated, under the read lock
Date == lastUpdated

\* ------------------------------------- consumers of NotifyOpen / NotifyError
Recv_Open ==
    /\ notifyOpen # <<>>
    /\ notifyOpen' = Tail(notifyOpen)
    /\ UNCHANGED <<closed, reader, lastUpdated, notifyError, chClosed, panicked,
                   mu, instState, instMtime, installs, emitted, fsVars, evVars,
                   callVars, watchVars, schedVars, cfgVars, nuVars>>

Recv_Error ==
    /\ notifyError # <<>>
    /\ notifyError' = Tail(notifyError)
    /\ UNCHANGED <<closed, reader, lastUpdated, notifyOpen, chClosed, panicked,
                   mu, instState, instMtime, installs, emitted, fsVars, evVars,
                   callVars, watchVars, schedVars, cfgVars, nuVars>>

\* What runUpdate saw at the start of the current cycle and what it has done
\* since; kept only when track asks for it.
NewCycle(f) ==
    [before |-> f, made |-> FALSE, env |-> FALSE, bakOK |-> FALSE]
Note(c) == IF "cycle" \in track THEN c ELSE cycle

\* ----------------------------------------------------------------- watcher
\* ev.Name == db.file && (ev.IsCreate() || ev.IsModify())
EventMatches(ev) == ev.name = "db" /\ ev.op \in {"create", "modify"}

\* newReader succeeds on a file that exists, is gzip and is accepted by the
\* decoder
newReaderOK(f) == f.exists /\ f.valid

\* os.Stat(db.file) succeeds on a file that exists
StatOK(f) == f.exists

NextInst == Cardinality({i \in Insts : instState[i] # "none"}) + 1

ToSleep ==
    /\ wpc' = "sleep"
    /\ wTimer' = IF Timed THEN Second ELSE 0
    /\ wReader' = 0
    /\ wMod' = 0

\* case ev := <-watcher.Event
watchEvents_Event ==
    /\ wpc = "select"
    /\ queue # <<>>
    /\ queue' = Tail(queue)
    /\ IF EventMatches(Head(queue))
       THEN /\ wpc' = "newReader"
            /\ wEv' = Head(queue).b
            /\ reloads' = IF Head(queue).b \in 1..MaxBursts
                          THEN [reloads EXCEPT ![Head(queue).b] = @ + 1]
                          ELSE reloads
            /\ wErr' = FALSE
            /\ UNCHANGED <<wReader, wMod, wTimer>>
       ELSE /\ ToSleep
            /\ UNCHANGED <<wEv, reloads, wErr>>
    /\ UNCHANGED <<handleVars, fsVars, burst, fresh, track, callVars,
                   dateBefore, schedVars, cfgVars, nuVars>>

\* case <-watcher.Error
watchEvents_Error ==
    /\ wpc = "select"
    /\ ToSleep
    /\ UNCHANGED <<handleVars, fsVars, evVars, callVars, wErr, wEv, dateBefore,
                   schedVars, cfgVars, nuVars>>

\* case <-db.notifyQuit: watcher.Close(); return
watchEvents_Quit ==
    /\ wpc = "select"
    /\ chClosed["quit"] > 0
    /\ wpc' = "done"
    /\ UNCHANGED <<handleVars, fsVars, evVars, callVars, wReader, wMod, wTimer,
                   wErr, wEv, dateBefore, schedVars, cfgVars, nuVars>>

\* time.Sleep(time.Second) has elapsed
watchEvents_Sleep ==
    /\ wpc = "sleep"
    /\ wTimer = 0
    /\ wpc' = "select"
    /\ wErr' = FALSE
    /\ wEv' = 0
    /\ UNCHANGED <<handleVars, fsVars, evVars, callVars, wReader, wMod, wTimer,
                   dateBefore, schedVars, cfgVars, nuVars>>

\* an openFile that gives up the active instance when newReader fails
openFile_newReaderDrops ==
    /\ wpc = "newReader"
    /\ ~newReaderOK(file)
    /\ ToSleep
    /\ wErr' = TRUE
    /\ reader' = 0
    /\ UNCHANGED <<closed, lastUpdated, notifyOpen, notifyError, instState,
                   instMtime, chClosed, panicked, mu, installs, emitted, fsVars,
                   evVars, callVars, wEv, dateBefore, schedVars, cfgVars, nuVars>>

\* reader, err := db.newReader(db.file); on an error openFile returns it and
\* watchEvents drops it
openFile_newReader ==
    /\ wpc = "newReader"
    /\ IF newReaderOK(file)
       THEN /\ NextInst <= MaxInst
            /\ instState' = [instState EXCEPT ![NextInst] = "open"]
            /\ instMtime' = [instMtime EXCEPT ![NextInst] = file.mtime]
            /\ wReader' = NextInst
            /\ wpc' = "stat"
            /\ UNCHANGED <<wMod, wTimer, wErr>>
       ELSE /\ ToSleep
            /\ wErr' = TRUE
            /\ UNCHANGED <<instState, instMtime>>
    /\ UNCHANGED <<closed, reader, lastUpdated, notifyOpen, notifyError,
                   chClosed, panicked, mu, installs, emitted, fsVars, evVars,
                   callVars, wEv, dateBefore, schedVars, cfgVars, nuVars>>

\* stat, err := os.Stat(db.file); on an error openFile returns it
openFile_Stat ==
    /\ wpc = "stat"
    /\ IF StatOK(file)
       THEN /\ wMod' = file.mtime
            /\ wpc' = "sr_lock"
            /\ UNCHANGED <<wReader, wTimer, wErr>>
       ELSE /\ ToSleep
            /\ wErr' = TRUE
    /\ UNCHANGED <<handleVars, fsVars, evVars, callVars, wEv, dateBefore,
                   schedVars, cfgVars, nuVars>>

\* setReader without the check of db.closed
setReaderNeverDiscards(cl) == FALSE

\* if db.closed { reader.Close(); return }
setReaderDiscards(cl) == cl

\* setReader without the close of the previous reader
setReaderKeepsOld(r) == FALSE

\* if db.reader != nil { db.reader.Close() }
setReaderClosesOld(r) == r # 0

\* a timestamp that only moves forward
NewTimestampMax(old, modtime) == IF modtime > old THEN modtime ELSE old

\* db.lastUpdated = modtime.UTC()
NewTimestamp(old, modtime) == modtime

setReader_Lock ==
    /\ wpc = "sr_lock"
    /\ Unlocked
    /\ mu' = Lock("w")
    /\ dateBefore' = Date
    /\ wpc' = "sr_check"
    /\ UNCHANGED <<closed, reader, lastUpdated, notifyOpen, notifyError,
                   chClosed, panicked, instState, instMtime, installs, emitted,
                   fsVars, evVars, callVars, wReader, wMod, wTimer, wErr, wEv,
                   schedVars, cfgVars, nuVars>>

setReader_Check ==
    /\ wpc = "sr_check"
    /\ IF setReaderDiscards(closed)
       THEN /\ instState' = [instState EXCEPT ![wReader] = "closed"]
            /\ instMtime' = [instMtime EXCEPT ![wReader] = 0]
            /\ wpc' = "sr_unlock"
       ELSE /\ UNCHANGED <<instState, instMtime>>
            /\ wpc' = "sr_closeold"
    /\ UNCHANGED <<closed, reader, lastUpdated, notifyOpen, notifyError,
                   chClosed, panicked, mu, installs, emitted,
                   fsVars, evVars, callVars, wReader, wMod, wTimer, wErr, wEv,
                   dateBefore, schedVars, cfgVars, nuVars>>

setReader_CloseOld ==
    /\ wpc = "sr_closeold"
    /\ IF setReaderClosesOld(reader)
       THEN /\ instState' = [instState EXCEPT ![reader] = "closed"]
            /\ instMtime' = [instMtime EXCEPT ![reader] = 0]
       ELSE UNCHANGED <<instState, instMtime>>
    /\ wpc' = "sr_assign"
    /\ UNCHANGED <<closed, reader, lastUpdated, notifyOpen, notifyError,
                   chClosed, panicked, mu, installs, emitted,
                   fsVars, evVars, callVars, wReader, wMod, wTimer, wErr, wEv,
                   dateBefore, schedVars, cfgVars, nuVars>>

\* db.reader = reader
setReader_Assign ==
    /\ wpc = "sr_assign"
    /\ reader' = wReader
    /\ installs' = Append(installs, wReader)
    /\ wpc' = "sr_time"
    /\ UNCHANGED <<closed, lastUpdated, notifyOpen, notifyError, chClosed,
                   panicked, mu, instState, instMtime, emitted, fsVars, evVars,
                   callVars, wReader, wMod, wTimer, wErr, wEv, dateBefore,
                   schedVars, cfgVars, nuVars>>

setReader_Time ==
    /\ wpc = "sr_time"
    /\ lastUpdated' = NewTimestamp(lastUpdated, wMod)
    /\ wpc' = "sr_notify"
    /\ UNCHANGED <<closed, reader, notifyOpen, notifyError, chClosed, panicked,
                   mu, instState, instMtime, installs, emitted, fsVars, evVars,
                   callVars, wReader, wMod, wTimer, wErr, wEv, dateBefore,
                   schedVars, cfgVars, nuVars>>

\* select { case db.notifyOpen <- db.file: default: }
setReader_Notify ==
    /\ wpc = "sr_notify"
    /\ IF chClosed["open"] > 0
       THEN panicked' = TRUE /\ notifyOpen' = notifyOpen
       ELSE panicked' = panicked /\ notifyOpen' = TrySend(notifyOpen, "db")
    /\ wpc' = "sr_unlock"
    /\ UNCHANGED <<closed, reader, lastUpdated, notifyError, chClosed, mu,
                   instState, instMtime, installs, emitted, fsVars, evVars,
                   callVars, wReader, wMod, wTimer, wErr, wEv, dateBefore,
                   schedVars, cfgVars, nuVars>>

\* the deferred db.mu.Unlock(); openFile returns nil; watchEvents sleeps
setReader_Unlock ==
    /\ wpc = "sr_unlock"
    /\ mu' = Unlock
    /\ ToSleep
    /\ dateBefore' = 0
    /\ UNCHANGED <<closed, reader, lastUpdated, notifyOpen, notifyError,
                   chClosed, panicked, instState, instMtime, installs, emitted,
                   fsVars, evVars, callVars, wErr, wEv, schedVars, cfgVars,
                   nuVars>>

openFile ==
    \/ openFile_newReader
    \/ openFile_Stat
    \/ setReader_Lock
    \/ setReader_Check
    \/ setReader_CloseOld
    \/ setReader_Assign
    \/ setReader_Time
    \/ setReader_Notify
    \/ setReader_Unlock

watchEvents ==
    \/ watchEvents_Event
    \/ watchEvents_Error
    \/ watchEvents_Quit
    \/ watchEvents_Sleep

\* --------------------------------------------------------------- watchFile
\* OpenURL has started the update goroutine and calls db.watchFile(); if
\* that returns an error OpenURL calls db.Close() (position "idle").
\* watcher, err := fsnotify.NewWatcher(); if err != nil { return err }
watchFile_NewWatcher(o) ==
    /\ cpc[o] = "o_newWatcher"
    /\ \E ok \in BOOLEAN :
          cpc' = [cpc EXCEPT ![o] = IF ok THEN "o_makeDir" ELSE "idle"]
    /\ UNCHANGED <<handleVars, fsVars, evVars, lpc, lres, lUsed, lAfter,
                   closeDone, watchVars, schedVars, cfgVars, nuVars>>

\* dbdir, err := db.makeDir(); if err != nil { return err }
watchFile_makeDir(o) ==
    /\ cpc[o] = "o_makeDir"
    /\ \/ /\ dir' = TRUE
          /\ cpc' = [cpc EXCEPT ![o] = "o_go"]
       \/ /\ ~dir
          /\ dir' = dir
          /\ cpc' = [cpc EXCEPT ![o] = "idle"]
    /\ UNCHANGED <<handleVars, file, bak, tmp, evVars, lpc, lres, lUsed,
                   lAfter, closeDone, watchVars, schedVars, cfgVars, nuVars>>

\* go db.watchEvents(watcher)
watchFile_Go(o) ==
    /\ cpc[o] = "o_go"
    /\ wpc = "nogo"
    /\ wpc' = "select"
    /\ cpc' = [cpc EXCEPT ![o] = "o_watch"]
    /\ UNCHANGED <<handleVars, fsVars, evVars, lpc, lres, lUsed, lAfter,
                   closeDone, wReader, wMod, wTimer, wErr, wEv, dateBefore,
                   schedVars, cfgVars, nuVars>>

\* return watcher.Watch(dbdir): from here on changes of the directory are
\* reported; changes made before are not
watchFile_Watch(o) ==
    /\ cpc[o] = "o_watch"
    /\ \/ dir /\ cpc' = [cpc EXCEPT ![o] = "o_done"]
       \/ cpc' = [cpc EXCEPT ![o] = "idle"]
    /\ UNCHANGED <<handleVars, fsVars, evVars, lpc, lres, lUsed, lAfter,
                   closeDone, watchVars, schedVars, cfgVars, nuVars>>

watchFile(o) ==
    \/ watchFile_NewWatcher(o)
    \/ watchFile_makeDir(o)
    \/ watchFile_Go(o)
    \/ watchFile_Watch(o)

\* ----------------------------------------------- the clock and the operator
\* One second passes: a running time.Sleep gets shorter and the next event
\* starts a new burst.
Tick ==
    /\ wTimer > 0 \/ (Timed /\ ~fresh)
    /\ wTimer' = IF wTimer > 0 THEN wTimer - 1 ELSE 0
    /\ fresh' = Timed
    /\ UNCHANGED <<handleVars, fsVars, queue, burst, reloads, track, callVars, wpc,
                   wReader, wMod, wErr, wEv, dateBefore, schedVars, cfgVars,
                   nuVars>>

\* Somebody else writes or replaces the canonical file.
Env_Write(FS) ==
    /\ dir
    /\ CanEmit
    /\ \E f \in FS : file' = f
    /\ Emit("db", IF file.exists THEN "modify" ELSE "create")
    /\ cycle' = Note([cycle EXCEPT !.env = (spc # "off")])
    /\ UNCHANGED <<handleVars, bak, tmp, dir, callVars, watchVars,
                   spc, sleep, retrying, sErr, fails, cfgVars,
                   nuVars>>

\* Somebody else removes the canonical file.
Env_Remove ==
    /\ file.exists
    /\ CanEmit
    /\ file' = NoFile
    /\ Emit("db", "delete")
    /\ cycle' = Note([cycle EXCEPT !.env = (spc # "off")])
    /\ UNCHANGED <<handleVars, bak, tmp, dir, callVars, watchVars,
                   spc, sleep, retrying, sErr, fails, cfgVars,
                   nuVars>>

\* Somebody else removes the directory of the canonical file.
Env_RemoveDir ==
    /\ dir
    /\ dir' = FALSE
    /\ file' = NoFile
    /\ bak' = NoFile
    /\ cycle' = Note([cycle EXCEPT !.env = (spc # "off")])
    /\ UNCHANGED <<handleVars, tmp, evVars, callVars, watchVars, spc,
                   sleep, retrying, sErr, fails, cfgVars, nuVars>>

\* -------------------------------------------------------------- needUpdate
Digits == <<"0", "1", "2", "3", "4", "5", "6", "7", "8", "9">>
IsDigit(c) == \E i \in 1..Len(Digits) : Digits[i] = c
DigitVal(c) == (CHOOSE i \in 1..Len(Digits) : Digits[i] = c) - 1

RECURSIVE DecimalVal(_)
DecimalVal(s) ==
    IF s = <<>> THEN 0
    ELSE 10 * DecimalVal(SubSeq(s, 1, Len(s) - 1)) + DigitVal(s[Len(s)])

\* strconv.Atoi: an optional sign, then one or more decimal digits; on a
\* syntax error it returns 0 and the error.  (A range error needs more than
\* 18 digits.)
Atoi(s) ==
    LET signed == s # <<>> /\ s[1] \in {"+", "-"}
        body == IF signed THEN Tail(s) ELSE s
        ok == body # <<>> /\ \A i \in 1..Len(body) : IsDigit(body[i])
    IN  [ok |-> ok,
         n |-> IF ~ok THEN 0
               ELSE IF signed /\ s[1] = "-" THEN 0 - DecimalVal(body)
               ELSE DecimalVal(body)]

\* The characters a Content-Length value is drawn from, and the values: the
\* empty one is an absent header (Header.Get returns "").
Chars == {"0", "1", "2", "x", "+", "-"}
Headers == UNION {[1..n -> Chars] : n \in 0..MaxHdrLen}
\* http.Head(url): an error, or a response with a Content-Length value
Heads == {[ok |-> FALSE, cl |-> <<>>]} \cup {[ok |-> TRUE, cl |-> h] : h \in Headers}

\* size, err := strconv.Atoi(resp.Header.Get("Content-Length")), err unused
RemoteSize(cl) == Atoi(cl).n

needUpdate(local, head) ==
    IF ~StatOK(local) THEN [yes |-> TRUE, err |-> FALSE]
    ELSE IF ~head.ok THEN [yes |-> FALSE, err |-> TRUE]
    ELSE IF local.size # RemoteSize(head.cl) THEN [yes |-> TRUE, err |-> FALSE]
    ELSE [yes |-> FALSE, err |-> FALSE]


\* --------------------------------------------------------------- scheduler
\* yes, err := db.needUpdate(url)
runUpdate_needUpdate ==
    /\ spc = "run"
    /\ \E head \in Heads :
          LET r == needUpdate(file, head) IN
          /\ sErr' = IF r.err THEN "head" ELSE ""
          /\ cycle' = Note(NewCycle(file))
          /\ spc' = IF r.err \/ ~r.yes THEN "result" ELSE "get"
    /\ UNCHANGED <<handleVars, fsVars, evVars, callVars, watchVars, sleep,
                   retrying, fails, cfgVars, nuVars>>

\* resp, err := http.Get(url); f, err := os.Create(tmpfile)
download_Get(FS) ==
    /\ spc = "get"
    /\ \/ /\ \E e \in {"get", "create"} : sErr' = e
          /\ spc' = "result"
          /\ UNCHANGED <<tmp, cycle>>
       \/ /\ \E f \in FS :
                tmp' = [exists |-> TRUE, mtime |-> f.mtime, size |-> 0,
                        valid |-> FALSE]
          /\ cycle' = Note([cycle EXCEPT !.made = TRUE])
          /\ spc' = "copy"
          /\ UNCHANGED sErr
    /\ UNCHANGED <<handleVars, file, bak, dir, evVars, callVars, watchVars,
                   sleep, retrying, fails, cfgVars, nuVars>>

\* _, err = io.Copy(f, resp.Body); if err != nil { return "", err }
download_Copy(FS) ==
    /\ spc = "copy"
    /\ \/ /\ \E f \in FS :
                tmp' = [tmp EXCEPT !.size = f.size, !.valid = f.valid]
          /\ spc' = "bak"
          /\ UNCHANGED <<sErr, cycle>>
       \/ /\ sErr' = "copy"
          /\ spc' = "result"
          /\ UNCHANGED <<tmp, cycle>>
    /\ UNCHANGED <<handleVars, file, bak, dir, evVars, callVars,
                   watchVars, sleep, retrying, fails, cfgVars,
                   nuVars>>

\* os.Rename(db.file, db.file+".bak") // Optional, might fail.
renameFile_Backup ==
    /\ spc = "bak"
    /\ \/ /\ file.exists
          /\ CanEmit
          /\ bak' = file
          /\ file' = NoFile
          /\ Emit("db", "rename")
          /\ cycle' = Note([cycle EXCEPT !.bakOK = TRUE])
       \/ UNCHANGED <<file, bak, evVars, cycle>>
    /\ spc' = "mkdir"
    /\ UNCHANGED <<handleVars, tmp, dir, callVars, watchVars, sleep,
                   retrying, sErr, fails, cfgVars, nuVars>>

\* _, err := db.makeDir(); if err != nil { return err }
renameFile_makeDir ==
    /\ spc = "mkdir"
    /\ \/ /\ spc' = "rename"
          /\ dir' = TRUE
          /\ UNCHANGED sErr
       \/ /\ ~dir
          /\ sErr' = "mkdir"
          /\ spc' = "cleanup"
          /\ UNCHANGED dir
    /\ UNCHANGED <<handleVars, file, bak, tmp, evVars, callVars,
                   watchVars, sleep, retrying, fails, cycle, cfgVars,
                   nuVars>>

\* return os.Rename(name, db.file)
renameFile_Rename ==
    /\ spc = "rename"
    /\ \/ /\ dir
          /\ CanEmit
          /\ file' = tmp
          /\ tmp' = NoFile
          /\ Emit("db", "create")
          /\ sErr' = ""
          /\ spc' = "result"
       \/ /\ sErr' = "rename"
          /\ spc' = "cleanup"
          /\ UNCHANGED <<file, tmp, evVars>>
    /\ UNCHANGED <<handleVars, bak, dir, callVars, watchVars, sleep,
                   retrying, fails, cycle, cfgVars, nuVars>>

\* runUpdate without the removal of the temporary file
runUpdate_NoCleanup ==
    /\ spc = "cleanup"
    /\ spc' = "result"
    /\ UNCHANGED <<handleVars, fsVars, evVars, callVars, watchVars, sleep,
                   retrying, sErr, fails, cycle, cfgVars, nuVars>>

\* if err != nil { os.RemoveAll(tmpfile) }
runUpdate_Cleanup ==
    /\ spc = "cleanup"
    /\ tmp' = NoFile
    /\ spc' = "result"
    /\ UNCHANGED <<handleVars, file, bak, dir, evVars, callVars,
                   watchVars, sleep, retrying, sErr, fails, cycle,
                   cfgVars, nuVars>>

\* FS: the snapshots the remote may serve
runUpdate(FS) ==
    \/ runUpdate_needUpdate
    \/ download_Get(FS)
    \/ download_Copy(FS)
    \/ renameFile_Backup
    \/ renameFile_makeDir
    \/ renameFile_Rename
    \/ runUpdate_Cleanup

\* the backoff with the cap applied to the first wait too
BackoffCapFirst(r, sl, max) ==
    IF ~r THEN (IF FirstRetry > max THEN max ELSE FirstRetry)
    ELSE IF 2 * sl > max THEN max ELSE 2 * sl

\* if !retrying { retrying = true; sleep = 5 * time.Second }
\* else { sleep *= 2; if sleep > db.maxRetryInterval { sleep = max } }
Backoff(r, sl, max) ==
    IF ~r THEN FirstRetry
    ELSE IF 2 * sl > max THEN max ELSE 2 * sl

\* err := db.runUpdate(url) has returned
autoUpdate_Result ==
    /\ spc = "result"
    /\ IF sErr # ""
       THEN /\ spc' = "se_lock"
            /\ UNCHANGED <<sleep, retrying, fails>>
       ELSE /\ retrying' = FALSE
            /\ sleep' = updateInterval
            /\ fails' = 0
            /\ spc' = "wait"
    /\ UNCHANGED <<handleVars, fsVars, evVars, callVars, watchVars, sErr,
                   cycle, cfgVars, nuVars>>

\* if db.closed { return }
sendErrorSkips(cl) == cl

\* fmt.Errorf("Database update failed: %s", err)
ErrValue == IF "errs" \in track THEN sErr ELSE "update"

sendError_RLock ==
    /\ spc = "se_lock"
    /\ CanRLock
    /\ mu' = RLock("s")
    /\ spc' = "se_send"
    /\ UNCHANGED <<closed, reader, lastUpdated, notifyOpen, notifyError,
                   chClosed, panicked, instState, instMtime, installs, emitted,
                   fsVars, evVars, callVars, watchVars, sleep, retrying, sErr,
                   fails, cycle, cfgVars, nuVars>>

\* select { case db.notifyError <- err: default: }
sendError_Send ==
    /\ spc = "se_send"
    /\ IF sendErrorSkips(closed)
       THEN UNCHANGED <<notifyError, panicked, emitted>>
       ELSE IF chClosed["error"] > 0
       THEN panicked' = TRUE /\ UNCHANGED <<notifyError, emitted>>
       ELSE /\ notifyError' = TrySend(notifyError, ErrValue)
            /\ emitted' = IF Timed /\ notifyError = <<>>
                          THEN emitted \cup {"update"} ELSE emitted
            /\ UNCHANGED panicked
    /\ spc' = "se_unlock"
    /\ UNCHANGED <<closed, reader, lastUpdated, notifyOpen, chClosed, mu,
                   instState, instMtime, installs, fsVars, evVars, callVars,
                   watchVars, sleep, retrying, sErr, fails, cycle,
                   cfgVars, nuVars>>

sendError_RUnlock ==
    /\ spc = "se_unlock"
    /\ mu' = RUnlock("s")
    /\ spc' = "backoff"
    /\ UNCHANGED <<closed, reader, lastUpdated, notifyOpen, notifyError,
                   chClosed, panicked, instState, instMtime, installs, emitted,
                   fsVars, evVars, callVars, watchVars, sleep, retrying, sErr,
                   fails, cycle, cfgVars, nuVars>>

sendError ==
    \/ sendError_RLock
    \/ sendError_Send
    \/ sendError_RUnlock

autoUpdate_Backoff ==
    /\ spc = "backoff"
    /\ retrying' = TRUE
    /\ sleep' = Backoff(retrying, sleep, maxRetryInterval)
    /\ fails' = IF "cycle" \in track THEN Min(fails + 1, MaxFails) ELSE 0
    /\ spc' = "wait"
    /\ UNCHANGED <<handleVars, fsVars, evVars, callVars, watchVars, sErr,
                   cycle, cfgVars, nuVars>>

\* select { ... }: neither case is ready, the goroutine parks
autoUpdate_Select ==
    /\ spc = "wait"
    /\ chClosed["quit"] = 0
    /\ spc' = "blocked"
    /\ UNCHANGED <<handleVars, fsVars, evVars, callVars, watchVars, sleep,
                   retrying, sErr, fails, cycle, cfgVars, nuVars>>

\* case <-db.notifyQuit: return
autoUpdate_Quit ==
    /\ spc \in {"wait", "blocked"}
    /\ chClosed["quit"] > 0
    /\ spc' = "done"
    /\ UNCHANGED <<handleVars, fsVars, evVars, callVars, watchVars, sleep,
                   retrying, sErr, fails, cycle, cfgVars, nuVars>>

\* a timer that wakes the goroutine whether notifyQuit is closed or not
autoUpdate_TimerAlways ==
    /\ spc \in {"wait", "blocked"}
    /\ spc' = "run"
    /\ sErr' = ""
    /\ cycle' = Note(NewCycle(NoFile))
    /\ UNCHANGED <<handleVars, fsVars, evVars, callVars, watchVars, sleep,
                   retrying, fails, cfgVars, nuVars>>

\* case <-time.After(sleep): a timer of zero length may be ready when the
\* select is entered, together with notifyQuit (select then picks either);
\* a parked goroutine is woken by whichever comes first.
autoUpdate_Timer ==
    /\ \/ spc = "wait" /\ sleep = 0
       \/ spc = "blocked" /\ chClosed["quit"] = 0
    /\ spc' = "run"
    /\ sErr' = ""
    /\ cycle' = Note(NewCycle(NoFile))
    /\ UNCHANGED <<handleVars, fsVars, evVars, callVars, watchVars, sleep,
                   retrying, fails, cfgVars, nuVars>>

autoUpdate(FS) ==
    \/ runUpdate(FS)
    \/ autoUpdate_Result
    \/ sendError
    \/ autoUpdate_Backoff
    \/ autoUpdate_Select
    \/ autoUpdate_Quit
    \/ autoUpdate_Timer

\* ------------------------------------------------------------ needUpdate alone
NeedUpdate_Apply ==
    /\ nuOut = "none"
    /\ nuOut' = IF needUpdate(nuIn.local, nuIn.head).err THEN "error"
                ELSE IF needUpdate(nuIn.local, nuIn.head).yes THEN "yes"
                ELSE "no"
    /\ UNCHANGED <<handleVars, fsVars, evVars, callVars, watchVars, schedVars,
                   cfgVars, nuIn>>

\* ---------------------------------------------------------- specifications
\* The handle as OpenURL leaves it: db.openFile() has loaded the canonical
\* file f if it could and the watch is armed; w0 and s0 are the positions of
\* the two goroutines ("off": not part of the specification).
InitHandle(f, w0, s0, tr) ==
    /\ closed = FALSE
    /\ reader = IF newReaderOK(f) THEN 1 ELSE 0
    /\ lastUpdated = IF newReaderOK(f) THEN f.mtime ELSE 0
    /\ notifyOpen = IF newReaderOK(f) THEN <<"db">> ELSE <<>>
    /\ notifyError = <<>>
    /\ chClosed = [ch \in {"quit", "open", "error"} |-> 0]
    /\ panicked = FALSE
    /\ mu = [w |-> "", r |-> {}]
    /\ instState = [i \in Insts |->
                      IF i = 1 /\ newReaderOK(f) THEN "open" ELSE "none"]
    /\ instMtime = [i \in Insts |->
                      IF i = 1 /\ newReaderOK(f) THEN f.mtime ELSE 0]
    /\ installs = IF newReaderOK(f) THEN <<1>> ELSE <<>>
    /\ emitted = {}
    /\ file = f
    /\ bak = NoFile
    /\ tmp = NoFile
    /\ dir = TRUE
    /\ queue = <<>>
    /\ burst = 0
    /\ fresh = ("time" \in tr)
    /\ track = tr
    /\ reloads = [b \in 1..MaxBursts |-> 0]
    /\ cpc = [c \in Callers |->
                IF c \in Closers THEN "idle"
                ELSE IF w0 = "nogo" THEN "o_newWatcher" ELSE "o_done"]
    /\ lpc = [l \in Lookups |-> "idle"]
    /\ lres = [l \in Lookups |-> "none"]
    /\ lUsed = [l \in Lookups |-> 0]
    /\ lAfter = [l \in Lookups |-> FALSE]
    /\ closeDone = FALSE
    /\ wpc = w0
    /\ wReader = 0
    /\ wMod = 0
    /\ wTimer = 0
    /\ wErr = FALSE
    /\ wEv = 0
    /\ dateBefore = 0
    /\ spc = s0
    /\ sleep = 0
    /\ retrying = FALSE
    /\ sErr = ""
    /\ fails = 0
    /\ cycle = NewCycle(NoFile)
    /\ IF w0 = "off" /\ s0 = "off"
       THEN nuIn \in [local : {NoFile} \cup FilesS, head : Heads] /\ nuOut = "none"
       ELSE /\ nuIn = [local |-> NoFile, head |-> [ok |-> FALSE, cl |-> <<>>]]
            /\ nuOut = "done"

Configs(U, R) == updateInterval \in U /\ maxRetryInterval \in R

\* The handle, its watcher goroutine and the callers of Close and Lookup.
Init ==
    /\ \E f \in {NoFile} \cup Files1 : InitHandle(f, "select", "off", {})
    /\ Configs({1}, {MaxRetry})

Next ==
    \/ \E c \in Closers : Close(c)
    \/ \E l \in Lookups : Lookup(l)
    \/ watchEvents
    \/ openFile
    \/ Recv_Open
    \/ Env_Write(Files1)
    \/ Env_Remove

Spec == Init /\ [][Next]_vars

\* The handle, its watcher goroutine and one caller of Close, over files of
\* every modification time.
InitInstall ==
    /\ \E f \in {NoFile} \cup Files0 : InitHandle(f, "select", "off", {})
    /\ Configs({1}, {MaxRetry})

NextInstall ==
    \/ Close("c1")
    \/ watchEvents
    \/ openFile
    \/ Recv_Open
    \/ Env_Write(Files0)
    \/ Env_Remove

SpecInstall == InitInstall /\ [][NextInstall]_vars

\* Both goroutines and two callers of Close: every sender and every closer
\* of the notification channels.
InitNotify ==
    /\ \E f \in {NoFile} \cup FileA : InitHandle(f, "select", "run", {})
    /\ Configs({FirstRetry}, {FirstRetry})

NextNotify ==
    \/ \E c \in Closers : Close(c)
    \/ watchEvents
    \/ openFile
    \/ autoUpdate(FileA)

SpecNotify == InitNotify /\ [][NextNotify]_vars

\* The update goroutine under every configuration.
InitBackoff ==
    /\ \E f \in {NoFile} \cup FileA : InitHandle(f, "off", "run", {"cycle"})
    /\ Configs(1..MaxUpdate, 0..MaxRetry)

NextBackoff ==
    \/ autoUpdate(FileA)
    \/ Recv_Error
    \/ Close("c1")

SpecBackoff == InitBackoff /\ [][NextBackoff]_vars

\* The update goroutine with the file system and its other users.
InitSched ==
    /\ \E f \in {NoFile} \cup FilesS : InitHandle(f, "off", "run", {"cycle"})
    /\ Configs({1}, {MaxRetry})

NextSched ==
    \/ autoUpdate(FilesS)
    \/ Recv_Error
    \/ Env_Write(FilesS)
    \/ Env_RemoveDir
    \/ Close("c1")

SpecSched == InitSched /\ [][NextSched]_vars

\* The watcher goroutine with numbered event bursts.
InitWatch ==
    /\ \E f \in {NoFile} \cup Files1 : InitHandle(f, "select", "off", {"time"})
    /\ Configs({1}, {MaxRetry})

NextWatch ==
    \/ watchEvents
    \/ openFile
    \/ Recv_Open
    \/ Tick
    \/ Env_Write(Files1)
    \/ Env_Remove
    \/ Close("c1")

SpecWatch == InitWatch /\ [][NextWatch]_vars

\* The remote serves a snapshot only while a decoder instance is left for the
\* reload it will cause; otherwise its GET fails.
Served(FS) ==
    IF Cardinality({i \in Insts : instState[i] # "none"}) + Len(queue)
          + (IF wpc = "newReader" THEN 1 ELSE 0) < MaxInst
    THEN FS ELSE {}

\* OpenURL from the start of the update goroutine on: the caller arms the
\* watch, or fails and closes the handle, while the update goroutine runs.
InitOpenURL ==
    /\ \E f \in {NoFile} \cup FileA : InitHandle(f, "nogo", "run", {})
    /\ Configs({0, 1}, {FirstRetry})

NextOpenURL ==
    \/ \E o \in Openers : watchFile(o) \/ Close(o)
    \/ watchEvents
    \/ openFile
    \/ autoUpdate(Served(FileA))

\* Every goroutine that can take a step takes one; db.mu starves nobody; a
\* select with several ready cases does not avoid one of them for ever.
FairOpenURL ==
    /\ \A o \in Openers : SF_vars(watchFile(o) \/ Close(o))
    /\ SF_vars(openFile)
    /\ SF_vars(watchEvents_Event)
    /\ SF_vars(watchEvents_Quit)
    /\ WF_vars(watchEvents_Sleep)
    /\ SF_vars(autoUpdate(Served(FileA)))
    /\ SF_vars(autoUpdate_Quit)

SpecOpenURL == InitOpenURL /\ [][NextOpenURL]_vars /\ FairOpenURL

\* The handle OpenURL returned, its two goroutines and a caller of Close.
InitClose ==
    /\ \E f \in {NoFile} \cup FileA : InitHandle(f, "select", "run", {})
    /\ Configs({0}, {FirstRetry})

NextClose ==
    \/ Close("c1")
    \/ watchEvents
    \/ openFile
    \/ autoUpdate(Served(FileA))

\* As above; and a call of Close that has the lock returns.
FairClose ==
    /\ WF_vars(Close_Check("c1") \/ Close_Chan("c1") \/ Close_Reader("c1")
                  \/ Close_Unlock("c1"))
    /\ SF_vars(openFile)
    /\ SF_vars(watchEvents_Event)
    /\ SF_vars(watchEvents_Quit)
    /\ WF_vars(watchEvents_Sleep)
    /\ SF_vars(autoUpdate(Served(FileA)))
    /\ SF_vars(autoUpdate_Quit)

SpecClose == InitClose /\ [][NextClose]_vars /\ FairClose

\* Every sender of the two notification streams, with a consumer of the
\* error stream and none of the opened stream.
InitStreams ==
    /\ \E f \in {NoFile} \cup FileA : InitHandle(f, "select", "run", {"errs"})
    /\ Configs({FirstRetry}, {FirstRetry})

NextStreams ==
    \/ watchEvents
    \/ openFile
    \/ autoUpdate(FileA)
    \/ Recv_Error
    \/ Close("c1")

SpecStreams == InitStreams /\ [][NextStreams]_vars

\* A reload by the watcher while the update goroutine replaces the canonical
\* file by snapshots of other modification times, on a handle nobody closes.
InitRace ==
    /\ \E f \in {NoFile} \cup FilesM : InitHandle(f, "select", "run", {})
    /\ Configs({FirstRetry}, {FirstRetry})

NextRace ==
    \/ watchEvents_Event
    \/ watchEvents_Sleep
    \/ openFile
    \/ runUpdate(FilesM)
    \/ autoUpdate_Result
    \/ sendError
    \/ autoUpdate_Backoff
    \/ autoUpdate_Select
    \/ autoUpdate_Timer

SpecRace == InitRace /\ [][NextRace]_vars

\* Reloads and update cycles that fail: the remote serves snapshots the
\* decoder rejects as well as good ones, and the backup rename takes the
\* canonical file away under a reload; with a Lookup and a Close caller.
InitReload ==
    /\ \E f \in {NoFile} \cup Files1 : InitHandle(f, "select", "run", {})
    /\ Configs({FirstRetry}, {FirstRetry})

NextReload ==
    \/ Lookup("l1")
    \/ Close("c1")
    \/ watchEvents
    \/ openFile
    \/ autoUpdate(Files1)

SpecReload == InitReload /\ [][NextReload]_vars

\* needUpdate alone, over every local file and every HEAD response.
InitNeed ==
    /\ InitHandle(NoFile, "off", "off", {})
    /\ Configs({1}, {MaxRetry})

SpecNeed == InitNeed /\ [][NeedUpdate_Apply]_vars

\* ================================================================== claims
AfterRename == {"cleanup", "result", "se_lock", "se_send", "se_unlock", "backoff"}
AfterCleanup == {"result", "se_lock", "se_send", "se_unlock", "backoff", "wait",
                 "blocked"}

RECURSIVE Pow2(_)
Pow2(n) == IF n = 0 THEN 1 ELSE 2 * Pow2(n - 1)

\* C1: a Lookup that took its read lock after a Close call had returned
\* returns ErrUnavailable, whatever setReader did in between.
C1_LookupAfterClose ==
    \A l \in Lookups :
        (lpc[l] = "l_unlock" /\ lAfter[l]) => lres[l] = "unavailable"

\* such a Lookup has returned, and an instance that was never installed has
\* been closed: setReader discarded it because the handle was closed
C1_Witness ==
    /\ \E l \in Lookups : lpc[l] = "l_unlock" /\ lAfter[l]
    /\ \E i \in Insts :
          /\ instState[i] = "closed"
          /\ \A k \in 1..Len(installs) : installs[k] # i

\* C2: no channel is closed twice, nothing is sent on a closed channel, and
\* once a Close call has returned each channel has been closed exactly once.
C2_NoPanic ==
    /\ ~panicked
    /\ \A ch \in DOMAIN chClosed : chClosed[ch] <= 1
    /\ closeDone => \A ch \in DOMAIN chClosed : chClosed[ch] = 1

\* a Close call is about to return after another one has returned, while
\* setReader and sendError both wait for the lock
C2_Witness ==
    /\ closeDone
    /\ \E c \in Closers : cpc[c] = "c_unlock"
    /\ spc = "se_lock"
    /\ wpc = "sr_lock"

\* C3: among the installed instances at most one is open, always; and when
\* nobody holds the write lock, every installed instance but the last is
\* closed, and the last is open and is db.reader unless the handle is closed.
C3_OneActive ==
    LET n == Len(installs) IN
    /\ Cardinality({k \in 1..n : instState[installs[k]] = "open"}) <= 1
    /\ mu.w = "" =>
          /\ \A k \in 1..n : k < n => instState[installs[k]] = "closed"
          /\ (n > 0 /\ ~closed) =>
                reader = installs[n] /\ instState[installs[n]] = "open"
          /\ closed =>
                reader = 0 /\ \A k \in 1..n : instState[installs[k]] = "closed"
          /\ reader # 0 => n > 0 /\ reader = installs[n]

\* three installs have been made on an open handle
C3_Witness ==
    /\ mu.w = ""
    /\ ~closed
    /\ Len(installs) >= 3
    /\ reader = installs[Len(installs)]

\* C4 as claimed: after an install Date is not smaller than before it.
C4_DateNeverDecreases ==
    (wpc = "sr_unlock" /\ ~closed) => Date >= dateBefore

\* C4 amended: after an install Date is the modification time openFile read
\* from the file, be it older or newer than the value before.
C4_DateIsModTime ==
    (wpc = "sr_unlock" /\ ~closed) => Date = wMod

\* an install of a file older than the one before
C4_Witness ==
    wpc = "sr_unlock" /\ ~closed /\ wMod < dateBefore

C6_OneReloadPerBurst ==
    \A b \in 1..MaxBursts : reloads[b] <= 1

\* C7 as claimed: after a failed final rename the canonical file is as it
\* was when the cycle began (nobody else having touched it).
C7_CanonicalUnchanged ==
    (sErr = "rename" /\ spc \in AfterRename /\ ~cycle.env) =>
        file = cycle.before

\* C7 amended: after a failed final rename the temporary file is removed,
\* the error is offered to the error stream (sendError buffers it when the
\* handle is open and the slot free) and the scheduler waits on its backoff
\* schedule; the canonical file is as it was only if the backup rename
\* failed, otherwise it is at the .bak path and the canonical path is empty.
C7_AfterFailure ==
    sErr = "rename" =>
        /\ (spc \in AfterRename /\ ~cycle.env) =>
              IF cycle.bakOK
              THEN ~file.exists /\ bak = cycle.before
              ELSE file = cycle.before
        /\ spc \in AfterCleanup => ~tmp.exists
        /\ spc \in {"wait", "blocked"} =>
              /\ retrying
              /\ fails >= 1
              /\ sleep = IF fails = 1 THEN FirstRetry
                         ELSE Min(FirstRetry * Pow2(fails - 1), maxRetryInterval)
        /\ spc = "done" => chClosed["quit"] > 0
        /\ spc \in AfterRename \cup {"wait", "blocked", "done"}

C7_Offered ==
    (sErr = "rename" /\ spc = "se_send" /\ spc' # spc /\ ~closed) =>
        notifyError' = IF notifyError = <<>> THEN <<"update">> ELSE notifyError

C7_RenameFailure == [](C7_AfterFailure) /\ [][C7_Offered]_vars

\* the final rename failed after the backup rename had succeeded, and the
\* scheduler is in its next wait
C7_Witness ==
    /\ sErr = "rename"
    /\ spc = "wait"
    /\ cycle.bakOK
    /\ ~cycle.env
    /\ ~file.exists
    /\ bak.exists

\* C8: when runUpdate returns an error after its temporary file was
\* created, the temporary file is gone.
C8_TmpRemoved ==
    (spc = "result" /\ sErr # "" /\ cycle.made) => ~tmp.exists

\* C9: after a reload of the watcher failed on an open handle whose error
\* slot has been free all along, the failure has been put on the error stream.
C9_ReloadErrorEmitted ==
    (wpc = "sleep" /\ wErr /\ ~closed /\ notifyError = <<>>
        /\ emitted \subseteq {"reload"})
    => "reload" \in emitted

\* C10: needUpdate says yes for a missing local file, and after a successful
\* HEAD it says no exactly when the Content-Length parses and equals the
\* local size.
C10_NeedUpdate ==
    nuOut \notin {"none", "done"} =>
        /\ ~nuIn.local.exists => nuOut = "yes"
        /\ (nuIn.local.exists /\ nuIn.head.ok) =>
              (nuOut = "no" <=>
                  (Atoi(nuIn.head.cl).ok
                   /\ Atoi(nuIn.head.cl).n = nuIn.local.size))
              /\ nuOut \in {"yes", "no"}

\* C11: on a handle that is never closed, once the update goroutine has
\* renamed a valid snapshot into the canonical path the watcher eventually
\* installs an instance, whenever the watch was armed.
C11_InstallReloaded ==
    (spc = "result" /\ sErr = "" /\ newReaderOK(file))
        ~> (closed \/ (reader # 0 /\ instState[reader] = "open"))

\* C12: after a Close call has returned the watcher goroutine and the update
\* goroutine both end; and an update goroutine that finds notifyQuit closed
\* while it is parked in its wait, or on entering a wait of positive length,
\* returns from there without another cycle.
C12_WaitLeftAtOnce ==
    (/\ spc \in {"wait", "blocked"}
     /\ chClosed["quit"] > 0
     /\ (spc = "blocked" \/ sleep > 0)
     /\ spc' # spc)
    => spc' = "done"

C12_Terminates ==
    /\ closeDone ~> (wpc = "done" /\ spc = "done")
    /\ [][C12_WaitLeftAtOnce]_vars

\* both goroutines have ended after a Close that found the update goroutine
\* parked in a wait of positive length and the watcher in its sleep
C12_Witness ==
    /\ closeDone
    /\ wpc = "done"
    /\ spc = "done"
    /\ sleep > 0
    /\ Len(installs) >= 2

\* C13: each notification stream holds at most one event; setReader's and
\* sendError's send buffers the event when the slot is free and otherwise
\* drops it and keeps the one in the slot; the send and the release of the
\* lock after it never wait, whether a consumer drains the streams or not.
C13_NeverBlocks ==
    /\ Len(notifyOpen) <= 1
    /\ Len(notifyError) <= 1
    /\ wpc = "sr_notify" => ENABLED setReader_Notify
    /\ wpc = "sr_unlock" => ENABLED setReader_Unlock
    /\ spc = "se_send" => ENABLED sendError_Send
    /\ spc = "se_unlock" => ENABLED sendError_RUnlock

C13_DropsNew ==
    /\ (wpc = "sr_notify" /\ wpc' # wpc) =>
          notifyOpen' = IF notifyOpen = <<>> THEN <<"db">> ELSE notifyOpen
    /\ (spc = "se_send" /\ spc' # spc /\ ~closed) =>
          notifyError' = IF notifyError = <<>> THEN <<sErr>> ELSE notifyError

C13_SingleSlot == [](C13_NeverBlocks) /\ [][C13_DropsNew]_vars

\* sendError has just offered an error while another one was in the slot,
\* and setReader an event while one was in its slot: the slots hold the
\* earlier ones and both senders go on
C13_Witness ==
    /\ ~closed
    /\ spc = "se_unlock"
    /\ Len(notifyError) = 1
    /\ notifyError[1] # sErr
    /\ notifyOpen = <<"db">>
    /\ Len(installs) >= 2

\* C14: once db.closed is set it stays set, and from then on lastUpdated
\* does not change, nothing is installed, db.reader can only be cleared (it
\* is nil whenever nobody holds the write lock) and no event is added to
\* either stream; an instance setReader is handed then is closed and is
\* never installed.
C14_Frozen ==
    closed =>
        /\ closed'
        /\ lastUpdated' = lastUpdated
        /\ installs' = installs
        /\ reader' \in {reader, 0}
        /\ Len(notifyOpen') <= Len(notifyOpen)
        /\ Len(notifyError') <= Len(notifyError)

C14_Discarded ==
    /\ (closed /\ mu.w = "") => reader = 0
    /\ (closed /\ wpc = "sr_unlock") =>
          /\ instState[wReader] = "closed"
          /\ \A k \in 1..Len(installs) : installs[k] # wReader

C14_ClosedFreezes == [](C14_Discarded) /\ [][C14_Frozen]_vars

\* setReader has closed the instance of an install that lost the race with
\* Close, and sendError has skipped its send, on a handle that had an
\* instance and a timestamp before
C14_Witness ==
    /\ closeDone
    /\ \E i \in Insts :
          /\ instState[i] = "closed"
          /\ \A k \in 1..Len(installs) : installs[k] # i
    /\ spc = "se_unlock"
    /\ lastUpdated # 0
    /\ Len(installs) >= 1

\* C15: whenever the handle has an active instance (and no install is under
\* way), lastUpdated is the modification time of the file whose bytes built
\* that instance.
C15_DateOfActiveInstance ==
    (reader # 0 /\ mu.w = "") => lastUpdated = instMtime[reader]

\* C16: a Lookup never queries a closed instance, and the instance it
\* queried, like db.reader itself, is open as long as it holds the read lock.
C16_LookupSeesOpen ==
    \A l \in Lookups :
        /\ lres[l] # "closedquery"
        /\ (lpc[l] = "l_unlock" /\ lUsed[l] # 0) =>
              instState[lUsed[l]] = "open" /\ reader = lUsed[l]
        /\ (lpc[l] \in {"l_query", "l_unlock"} /\ reader # 0) =>
              instState[reader] = "open"

\* two Lookups hold the read lock, one of them has queried the instance of
\* the second install, while setReader waits to replace it and Close waits
\* too
C16_Witness ==
    /\ lpc["l1"] = "l_unlock"
    /\ lres["l1"] = "ok"
    /\ lpc["l2"] = "l_query"
    /\ wpc = "sr_lock"
    /\ Len(installs) >= 2
    /\ lUsed["l1"] = installs[Len(installs)]

C18_FailureChangesNothing ==
    (wpc \in {"newReader", "stat"} /\ wpc' = "sleep") =>
        /\ wErr'
        /\ reader' = reader
        /\ lastUpdated' = lastUpdated
        /\ notifyOpen' = notifyOpen
        /\ closed' = closed
        /\ installs' = installs

C18_StaysAvailable ==
    (~closed /\ Len(installs) >= 1) =>
        /\ mu.w = "" => (reader # 0 /\ instState[reader] = "open")
        /\ \A l \in Lookups : lpc[l] = "l_unlock" => lres[l] = "ok"

C18_FailedReload == [](C18_StaysAvailable) /\ [][C18_FailureChangesNothing]_vars

\* a Lookup has got a result after a reload failed and an update cycle
\* failed on a handle that had an instance
C18_Witness ==
    /\ ~closed
    /\ wpc = "sleep"
    /\ wErr
    /\ retrying
    /\ reader # 0
    /\ lpc["l1"] = "l_unlock"
    /\ lres["l1"] = "ok"

\* C19: every instance newReader built is db.reader or closed once the
\* openFile that built it has returned (until then it is openFile's local).
C19_NoInstanceLeaked ==
    \A i \in Insts :
        instState[i] = "open" => (i = reader \/ i = wReader)

\* C20: once a Close call has returned the update goroutine begins no
\* runUpdate: it takes no step out of the position before db.runUpdate(url).
C20_NoCycleAfterClose ==
    [][(closeDone /\ spc = "run") => spc' = "run"]_vars
====
